---- MODULE Spec2Model ----
(***************************************************************************)
(* Game of Life: the Grid cell buffer, the double-buffered World and the   *)
(* binary codec of Zoo, modelled from the C++ sources.                     *)
(*                                                                         *)
(* A Grid is a record [width, height, gridVector]; gridVector is the       *)
(* row-major std::vector<Cell>, held as a TLA+ sequence, so the C++ index  *)
(* i is the sequence index i + 1.  A C++ exception is modelled as an       *)
(* explicit error value naming the exception type ("none" when the call    *)
(* returns normally).                                                      *)
(***************************************************************************)
EXTENDS Integers, Sequences, FiniteSets, TLC

\* ------------------------------------------------------------------ bounds
\* Largest width and height of a world, and the number of ALIVE cells of the
\* grid a world is constructed from.
MaxW == 3
MaxH == 3
MaxAlive == 3
\* Binary codec: the largest cell count of a saved grid and the number of its
\* ALIVE cells; the largest width and height a foreign file declares, the
\* number of chunks it holds and of bits set in them.
MaxCells == 33
MaxCodecAlive == 1
MaxForeignDim == 3
MaxForeignChunks == 2
MaxForeignBits == 1
\* Text codec: the largest width and height of a saved grid, the largest
\* number of its cells and of its ALIVE cells.
MaxAsciiDim == 11
MaxAsciiCells == 12
MaxAsciiAlive == 1
\* Largest steps argument of advance.
MaxSteps == 2
\* Number of operations applied to a world after its construction.
MaxOps == 2
\* Grid operations: the number of ALIVE cells of the grid they are applied
\* to; the largest width and height of the grid passed to merge and the
\* number of its ALIVE cells; the largest |rotation| passed to rotate and the
\* number of rotate calls chained on its result.
MaxGridAlive == 2
MaxOtherDim == 2
MaxOtherAlive == 2
MaxRotation == 5
MaxTurns == 4

\* ------------------------------------------------------------------- cells
\* enum Cell : char { DEAD = ' ', ALIVE = '#' }
DEAD == " "
ALIVE == "#"

VARIABLES
    currGrid,   \* World::currGrid
    nextGrid,   \* World::nextGrid
    twin,       \* a second World, built from the same grid and then resized
                \* to its own size: same current grid, other next buffer
    start_state, \* the grid the World was constructed with (initial_state)
    op,         \* the last World operation and its arguments
    err,        \* the exception the last World operation ended with
    nops,       \* number of World operations applied so far
    file,       \* the binary file: [bytes, from], from = who wrote it last
    saved,      \* the grid last passed to Zoo::save_binary
    loaded,     \* outcome of the last Zoo::load_binary of the file
    grid,       \* a Grid object
    gop         \* the last operation on grid: its name, arguments, the
                \* exception it ended with and the Grid it returned

worldVars == <<currGrid, nextGrid, twin, start_state, op, err, nops>>
codecVars == <<file, saved, loaded>>
gridVars == <<grid, gop>>
vars == <<currGrid, nextGrid, twin, start_state, op, err, nops,
         file, saved, loaded, grid, gop>>

\* =================================================================== Grid
\* Grid::Grid(width, height): every cell DEAD.
Grid(width, height) ==
    [width |-> width, height |-> height,
     gridVector |-> [i \in 1..(width * height) |-> DEAD]]

\* Grid::get_index_new_grid
get_index_new_grid(x, y, newWidth) == newWidth * y + x

\* Grid::get_index
get_index(g, x, y) == get_index_new_grid(x, y, g.width)

\* An unsigned int is held as the int with the same 32 bits (TLC's integers
\* are 32 bits wide): a negative int stands for the value 2^32 larger.
\* ULess is < on unsigned int.
ULess(a, b) == IF (a < 0) = (b < 0) THEN a < b ELSE b < 0

\* A validity test on the index of (x, y) instead of on x and y.
are_valid_index(g, x, y) == ULess(get_index(g, x, y), g.width * g.height)

\* Grid::are_valid_coordinates.  The parameters are unsigned, so the source's
\* x >= 0 and y >= 0 always hold, and a negative int passed here is a value
\* of 2^31 or more.
are_valid_coordinates(g, x, y) == ULess(x, g.width) /\ ULess(y, g.height)

\* Grid::operator()(x, y) on valid coordinates (both overloads read the same
\* element; the callers check are_valid_coordinates to model the throw).
Cell_at(g, x, y) == g.gridVector[get_index(g, x, y) + 1]

\* An assignment that takes the index of (x, y) column by column.
Cell_put_by_column(g, x, y, cell) ==
    [g EXCEPT !.gridVector[g.height * x + y + 1] = cell]

\* The assignment  g(x, y) = cell  through the mutable accessor, on valid
\* coordinates.
Cell_put(g, x, y, cell) ==
    [g EXCEPT !.gridVector[get_index(g, x, y) + 1] = cell]

\* Grid::get_alive_cells
get_alive_cells(g) ==
    Cardinality({i \in 1..(g.width * g.height) : g.gridVector[i] = ALIVE})

\* A resize that keeps the cells by their position in the vector, as
\* std::vector::resize does, instead of by their coordinates.
Grid_resize_by_index(g, newWidth, newHeight) ==
    [width |-> newWidth, height |-> newHeight,
     gridVector |->
        [k \in 1..(newWidth * newHeight) |->
            IF k <= Len(g.gridVector) THEN g.gridVector[k] ELSE DEAD]]

\* Grid::resize(newWidth, newHeight)
Grid_resize(g, newWidth, newHeight) ==
    [width |-> newWidth, height |-> newHeight,
     gridVector |->
        [k \in 1..(newWidth * newHeight) |->
            LET j == (k - 1) % newWidth
                i == (k - 1) \div newWidth
            IN IF i < g.height /\ j < g.width
               THEN g.gridVector[get_index(g, j, i) + 1]
               ELSE DEAD]]

\* All grids of a given size with at most k ALIVE cells (the grids a caller
\* can build with Grid(width, height) and set).
RECURSIVE IndexSets(_, _)
IndexSets(n, k) ==
    IF k = 0 THEN {{}}
    ELSE LET smaller == IndexSets(n, k - 1)
         IN smaller \cup {T \cup {i} : T \in smaller, i \in 1..n}

GridsOf(width, height, k) ==
    {[width |-> width, height |-> height,
      gridVector |-> [i \in 1..(width * height) |->
                         IF i \in S THEN ALIVE ELSE DEAD]] :
        S \in IndexSets(width * height, k)}

\* Grid::get(x, y).  Result: [err, cell].
Grid_get(g, x, y) ==
    IF ~are_valid_coordinates(g, x, y)
    THEN [err |-> "invalid_argument", cell |-> DEAD]
    ELSE [err |-> "none", cell |-> Cell_at(g, x, y)]

\* Grid::set(x, y, cell).  Result: [err, grid].
Grid_set(g, x, y, cell) ==
    IF ~are_valid_coordinates(g, x, y)
    THEN [err |-> "invalid_argument", grid |-> g]
    ELSE [err |-> "none", grid |-> Cell_put(g, x, y, cell)]

\* Cell Grid::operator()(x, y) const.  Result: [err, cell].
Grid_call_const(g, x, y) ==
    IF ~are_valid_coordinates(g, x, y)
    THEN [err |-> "invalid_argument", cell |-> DEAD]
    ELSE [err |-> "none", cell |-> Cell_at(g, x, y)]

\* A read of g(x, y) through Cell& Grid::operator()(x, y).
\* Result: [err, cell].
Grid_call(g, x, y) ==
    IF ~are_valid_coordinates(g, x, y)
    THEN [err |-> "runtime_error", cell |-> DEAD]
    ELSE [err |-> "none", cell |-> Cell_at(g, x, y)]

\* The assignment  g(x, y) = cell  through Cell& Grid::operator()(x, y).
\* Result: [err, grid].
Grid_call_put(g, x, y, cell) ==
    IF ~are_valid_coordinates(g, x, y)
    THEN [err |-> "runtime_error", grid |-> g]
    ELSE [err |-> "none", grid |-> Cell_put(g, x, y, cell)]

\* ------------------------------------------------------------ Grid::crop
\* A crop that takes x1 for the width of the window.
crop_width_from_origin(x0, x1) == x1

\* unsigned int newWidth = x1 - x0
crop_width(x0, x1) == x1 - x0

\* The two loops of Grid::crop from cell (x, y) on: reads g through get,
\* writes newGrid through the mutable operator().  Result: [err, grid].
RECURSIVE crop_loop(_, _, _, _, _, _, _, _)
crop_loop(g, newGrid, x0, y0, x1, y1, x, y) ==
    IF ~ULess(y, y1) THEN [err |-> "none", grid |-> newGrid]
    ELSE IF ~ULess(x, x1) THEN crop_loop(g, newGrid, x0, y0, x1, y1, x0, y + 1)
    ELSE LET rd == Grid_get(g, x, y)
             wr == Grid_call_put(newGrid, x - x0, y - y0, rd.cell)
         IN IF rd.err # "none" THEN [err |-> rd.err, grid |-> newGrid]
            ELSE IF wr.err # "none" THEN [err |-> wr.err, grid |-> newGrid]
            ELSE crop_loop(g, wr.grid, x0, y0, x1, y1, x + 1, y)

\* Grid::crop(x0, y0, x1, y1).  Result: [err, what, grid]; grid is the
\* returned Grid (the empty Grid when the call throws).  The parameters are
\* unsigned, so the source's tests against 0 never fire.
Grid_crop(g, x0, y0, x1, y1) ==
    IF \/ ~ULess(x0, g.width) \/ ULess(g.width, x1)
       \/ ~ULess(y0, g.height) \/ ULess(g.height, y1)
    THEN [err |-> "invalid_argument", what |-> "Invalid coordinates", grid |-> Grid(0, 0)]
    ELSE IF ULess(x1, x0) \/ ULess(y1, y0)
    THEN [err |-> "invalid_argument", what |-> "Negative size of crop window",
          grid |-> Grid(0, 0)]
    ELSE LET newWidth == crop_width(x0, x1)
             newHeight == y1 - y0
             r == crop_loop(g, Grid(newWidth, newHeight), x0, y0, x1, y1, x0, y0)
         IN IF r.err # "none"
            THEN [err |-> r.err, what |-> "Invalid coordinates", grid |-> Grid(0, 0)]
            ELSE [err |-> "none", what |-> "", grid |-> r.grid]

\* ----------------------------------------------------------- Grid::merge
\* The two loops of Grid::merge from (x, y) on.  The outer variable y runs to
\* the width of this grid and of other, the inner variable x to the heights,
\* as in the source.  other is a const Grid, read through the const
\* operator(); this grid is read through get and written through set.
\* Result: [err, grid]; the loops stop at the first exception, leaving in
\* grid what was written before it.
RECURSIVE merge_loop(_, _, _, _, _, _, _)
merge_loop(g, other, x0, y0, alive_only, x, y) ==
    IF ~(ULess(y, g.width) /\ ULess(y, y0 + other.width))
    THEN [err |-> "none", grid |-> g]
    ELSE IF ~(ULess(x, g.height) /\ ULess(x, x0 + other.height))
    THEN merge_loop(g, other, x0, y0, alive_only, x0, y + 1)
    ELSE LET src == Grid_call_const(other, x - x0, y - y0)
         IN IF src.err # "none" THEN [err |-> src.err, grid |-> g]
            ELSE LET mine == Grid_get(g, x, y)
                     wr == IF src.cell = ALIVE /\ alive_only
                           THEN Grid_set(g, x, y, ALIVE)
                           ELSE IF alive_only /\ mine.err # "none"
                           THEN [err |-> mine.err, grid |-> g]
                           ELSE IF alive_only /\ mine.cell = ALIVE
                           THEN Grid_set(g, x - x0, y - y0, ALIVE)
                           ELSE Grid_set(g, x, y, src.cell)
                 IN IF wr.err # "none" THEN [err |-> wr.err, grid |-> g]
                    ELSE merge_loop(wr.grid, other, x0, y0, alive_only, x + 1, y)

\* Grid::merge(other, x0, y0, alive_only).  Result: [err, grid], grid being
\* this grid after the call.
Grid_merge(g, other, x0, y0, alive_only) ==
    IF \/ ULess(g.width, other.width + x0)
       \/ ULess(g.height, other.height + y0)
       \/ ~are_valid_coordinates(g, x0, y0)
    THEN [err |-> "invalid_argument", grid |-> g]
    ELSE merge_loop(g, other, x0, y0, alive_only, x0, y0)

\* ---------------------------------------------------------- Grid::rotate
\* int realRotation: rotation % -4 for a negative rotation, rotation % 4
\* otherwise; the remainder of C++ has the sign of the dividend.
real_rotation(rotation) ==
    IF rotation < 0 THEN 0 - ((0 - rotation) % 4) ELSE rotation % 4

\* A switch that takes a negative remainder for its absolute value.
rotate_case_abs(realRotation) ==
    IF realRotation < 0 THEN 0 - realRotation ELSE realRotation

\* The case the switch takes for realRotation: 0, 1, 2 or 3, and -1 for its
\* default.
rotate_case(realRotation) ==
    CASE realRotation = 0 -> 0
      [] realRotation \in {-3, 1} -> 1
      [] realRotation \in {-2, 2} -> 2
      [] realRotation \in {-1, 3} -> 3
      [] OTHER -> -1

\* A rotate that constructs newGrid with the size of this grid in every case.
rotate_size_same(g, c) == [width |-> g.width, height |-> g.height]

\* Width and height newGrid is constructed with in case c.
rotate_size(g, c) ==
    IF c \in {1, 3} THEN [width |-> g.height, height |-> g.width]
    ELSE [width |-> g.width, height |-> g.height]

\* Where case c writes the cell it read at (x, y).
rotate_target(g, c, x, y) ==
    CASE c = 0 -> <<x, y>>
      [] c = 1 -> <<g.height - y - 1, x>>
      [] c = 2 -> <<g.width - x - 1, g.height - y - 1>>
      [] c = 3 -> <<y, g.width - x - 1>>

\* The two loops of a case of Grid::rotate from cell (x, y) on: reads g
\* through get, writes newGrid through the mutable operator().
RECURSIVE rotate_loop(_, _, _, _, _)
rotate_loop(g, newGrid, c, x, y) ==
    IF ~ULess(y, g.height) THEN [err |-> "none", grid |-> newGrid]
    ELSE IF ~ULess(x, g.width) THEN rotate_loop(g, newGrid, c, 0, y + 1)
    ELSE LET rd == Grid_get(g, x, y)
             t == rotate_target(g, c, x, y)
             wr == Grid_call_put(newGrid, t[1], t[2], rd.cell)
         IN IF rd.err # "none" THEN [err |-> rd.err, grid |-> newGrid]
            ELSE IF wr.err # "none" THEN [err |-> wr.err, grid |-> newGrid]
            ELSE rotate_loop(g, wr.grid, c, x + 1, y)

\* Grid::rotate(rotation).  Result: [err, grid]; grid is the returned Grid
\* (the empty Grid when the call throws or the switch takes its default).
Grid_rotate(g, rotation) ==
    LET c == rotate_case(real_rotation(rotation))
    IN IF c = -1 THEN [err |-> "none", grid |-> Grid(0, 0)]
       ELSE LET size == rotate_size(g, c)
                r == rotate_loop(g, Grid(size.width, size.height), c, 0, 0)
            IN IF r.err # "none" THEN [err |-> r.err, grid |-> Grid(0, 0)]
               ELSE r

\* ================================================================== World
\* World::World(width, height)
World_sized(width, height) ==
    [currGrid |-> Grid(width, height), nextGrid |-> Grid(width, height)]

\* World::World(initial_state): both buffers get every cell of initial_state.
World_from(initial_state) ==
    [currGrid |-> [Grid(initial_state.width, initial_state.height)
                      EXCEPT !.gridVector = initial_state.gridVector],
     nextGrid |-> [Grid(initial_state.width, initial_state.height)
                      EXCEPT !.gridVector = initial_state.gridVector]]

\* A resize that leaves the next buffer as it is.
World_resize_curr_only(w, new_width, new_height) ==
    [currGrid |-> Grid_resize(w.currGrid, new_width, new_height),
     nextGrid |-> w.nextGrid]

\* A resize that resizes the next buffer as it does the current one, keeping
\* its cells.
World_resize_both(w, new_width, new_height) ==
    [currGrid |-> Grid_resize(w.currGrid, new_width, new_height),
     nextGrid |-> Grid_resize(w.nextGrid, new_width, new_height)]

\* World::resize(new_width, new_height)
World_resize(w, new_width, new_height) ==
    [currGrid |-> Grid_resize(w.currGrid, new_width, new_height),
     nextGrid |-> Grid(new_width, new_height)]

\* World::count_neighbours(x, y, torodial) on the grid g = currGrid.
\* Result: [err, counter].  Every read goes through the const operator(),
\* which throws std::invalid_argument on invalid coordinates.
\* The "else if" of the source is kept: when the minus neighbour was
\* adjusted, the plus neighbour is not.
count_neighbours(g, x, y, torodial) ==
    LET x_minus == IF x - 1 = -1
                   THEN (IF torodial THEN g.width - 1 ELSE 0)
                   ELSE x - 1
        x_plus  == IF x - 1 = -1 THEN x + 1
                   ELSE IF x + 1 = g.width
                        THEN (IF torodial THEN 0 ELSE x)
                        ELSE x + 1
        y_minus == IF y - 1 = -1
                   THEN (IF torodial THEN g.height - 1 ELSE 0)
                   ELSE y - 1
        y_plus  == IF y - 1 = -1 THEN y + 1
                   ELSE IF y + 1 = g.height
                        THEN (IF torodial THEN 0 ELSE y)
                        ELSE y + 1
        setX == <<x_minus, x, x_plus>>
        setY == <<y_minus, y, y_plus>>
        \* the reads of the loops, as (slot, coordinate) pairs: a coordinate
        \* read twice in the toroidal branch is counted twice
        reads == IF torodial
                 THEN {<<i, j, setX[j], setY[i]>> : i \in 1..3, j \in 1..3}
                 ELSE {<<0, 0, i, j>> : i \in x_minus..x_plus, j \in y_minus..y_plus}
        allValid == /\ \A r \in reads : are_valid_coordinates(g, r[3], r[4])
                    /\ are_valid_coordinates(g, x, y)
        counter == Cardinality({r \in reads : Cell_at(g, r[3], r[4]) = ALIVE})
    IN IF ~allValid
       THEN [err |-> "invalid_argument", counter |-> 0]
       ELSE [err |-> "none",
             counter |-> IF Cell_at(g, x, y) = ALIVE THEN counter - 1 ELSE counter]

\* A rule under which no DEAD cell becomes ALIVE.
step_cell_no_birth(cell, neighbours) ==
    IF cell = ALIVE /\ neighbours \in {2, 3} THEN ALIVE ELSE DEAD

\* The rule of World::step for one cell.
step_cell(cell, neighbours) ==
    IF cell = ALIVE
    THEN (IF neighbours < 2 \/ neighbours > 3 THEN DEAD ELSE ALIVE)
    ELSE IF neighbours = 3 THEN ALIVE ELSE DEAD

\* Upper limit of the inner (x) loop of World::step: the source compares x
\* with get_height().
step_x_limit(g) == g.height

\* The two loops of World::step from cell (x, y) on: reads curr, writes next.
\* Result: [nextGrid, err]; the pass stops at the first exception, leaving in
\* next what was written before it.
RECURSIVE step_loop(_, _, _, _, _)
step_loop(curr, next, torodial, x, y) ==
    IF y >= curr.height THEN [nextGrid |-> next, err |-> "none"]
    ELSE IF x >= step_x_limit(curr) THEN step_loop(curr, next, torodial, 0, y + 1)
    ELSE LET cn == count_neighbours(curr, x, y, torodial)
         IN IF cn.err # "none" THEN [nextGrid |-> next, err |-> cn.err]
            ELSE IF ~are_valid_coordinates(curr, x, y)
                    \/ ~are_valid_coordinates(next, x, y)
                 THEN [nextGrid |-> next, err |-> "runtime_error"]
            ELSE step_loop(curr,
                           Cell_put(next, x, y,
                                    step_cell(Cell_at(curr, x, y), cn.counter)),
                           torodial, x + 1, y)

\* A step that leaves the buffers where they are after its pass.
World_step_no_swap(w, torodial) ==
    LET pass == step_loop(w.currGrid, w.nextGrid, torodial, 0, 0)
    IN [currGrid |-> w.currGrid, nextGrid |-> pass.nextGrid, err |-> pass.err]

\* A step that swaps the buffers even when its pass throws.
World_step_swap_always(w, torodial) ==
    LET pass == step_loop(w.currGrid, w.nextGrid, torodial, 0, 0)
    IN [currGrid |-> pass.nextGrid, nextGrid |-> w.currGrid, err |-> pass.err]

\* World::step(torodial): the pass, then std::swap(currGrid, nextGrid).
\* Result: [currGrid, nextGrid, err].
World_step(w, torodial) ==
    LET pass == step_loop(w.currGrid, w.nextGrid, torodial, 0, 0)
    IN IF pass.err # "none"
       THEN [currGrid |-> w.currGrid, nextGrid |-> pass.nextGrid, err |-> pass.err]
       ELSE [currGrid |-> pass.nextGrid, nextGrid |-> w.currGrid, err |-> "none"]

\* An advance whose loop runs while i <= steps.
RECURSIVE advance_loop_inclusive(_, _, _, _)
advance_loop_inclusive(w, steps, torodial, i) ==
    IF i > steps THEN [currGrid |-> w.currGrid, nextGrid |-> w.nextGrid, err |-> "none"]
    ELSE LET s == World_step(w, torodial)
         IN IF s.err # "none" THEN s
            ELSE advance_loop_inclusive([currGrid |-> s.currGrid, nextGrid |-> s.nextGrid],
                                        steps, torodial, i + 1)

\* World::advance(steps, torodial): the loop from iteration i on.
RECURSIVE advance_loop(_, _, _, _)
advance_loop(w, steps, torodial, i) ==
    IF i >= steps THEN [currGrid |-> w.currGrid, nextGrid |-> w.nextGrid, err |-> "none"]
    ELSE LET s == World_step(w, torodial)
         IN IF s.err # "none" THEN s
            ELSE advance_loop([currGrid |-> s.currGrid, nextGrid |-> s.nextGrid],
                              steps, torodial, i + 1)

World_advance(w, steps, torodial) == advance_loop(w, steps, torodial, 0)

\* ============================================================ Zoo: binary
\* const unsigned int sizeOfInt = 4 (load_binary); sizeof(int) in save_binary.
sizeOfInt == 4
\* const unsigned int bitsInt = 8 * sizeOfInt; the literal 32 of save_binary.
bitsInt == 8 * sizeOfInt

RECURSIVE Pow2(_)
Pow2(n) == IF n = 0 THEN 1 ELSE 2 * Pow2(n - 1)

\* The 4 bytes of an int in memory (little-endian host), as written by
\* ofs.write((char*)&v, 4).
IntBytes(v) ==
    <<v % 256, (v \div 256) % 256, (v \div 65536) % 256, (v \div 16777216) % 256>>

\* The int held by 4 bytes in memory, as left by ifs.read((char*)&v, 4).
BytesInt(b) ==
    b[1] + 256 * b[2] + 65536 * b[3]
      + 16777216 * (IF b[4] >= 128 THEN b[4] - 256 ELSE b[4])

\* Bit j of an unsigned int held as its 4 bytes:
\* (bytesHolder << (bitsInt - 1 - j)) >> (bitsInt - 1).
BitOf(bytesHolder, j) == (bytesHolder[(j \div 8) + 1] \div Pow2(j % 8)) % 2

\* bufferInt += pow(2, j), on the 4 bytes of bufferInt (each bit is added at
\* most once per chunk, so no carry leaves its byte).
AddPow2(bufferInt, j) ==
    [bufferInt EXCEPT ![(j \div 8) + 1] = @ + Pow2(j % 8)]

\* Number of 4-byte chunks for n cells, as both functions compute it: the
\* division and the remainder are unsigned (bitsInt is an unsigned int, the
\* product in save_binary is one), so a count held as a negative int stands
\* for n + 2^32 and 2^32 / 32 is added to the quotient.
chunk_loops(n) ==
    (n \div bitsInt) + (IF n < 0 THEN 134217728 ELSE 0)
      + (IF n % bitsInt # 0 THEN 1 ELSE 0)

\* width * height on 32 bits, on the bytes of the two factors: the product
\* modulo 2^32.
MulBytes(a, b) ==
    LET c1 == a[1] * b[1]
        c2 == a[1] * b[2] + a[2] * b[1] + (c1 \div 256)
        c3 == a[1] * b[3] + a[2] * b[2] + a[3] * b[1] + (c2 \div 256)
        c4 == a[1] * b[4] + a[2] * b[3] + a[3] * b[2] + a[4] * b[1] + (c3 \div 256)
    IN <<c1 % 256, c2 % 256, c3 % 256, c4 % 256>>

\* The number of cells of Grid(width, height): the 32-bit product, held as
\* the int of the same bits.
total_cells(width, height) == BytesInt(MulBytes(IntBytes(width), IntBytes(height)))

\* The largest number of cells whose values are held; a larger grid is
\* followed by its width and height only.
MaxHeldCells == 1024

\* Whether the cells of a grid of n cells are held.
Held(n) == n >= 0 /\ n <= MaxHeldCells

\* Whether the allocation of n cells can fail with std::bad_alloc in a
\* process that runs the loaders: 2^24 cells or more.
AllocMayFail(n) == n < 0 \/ n >= 16777216

\* A save_binary that fills each chunk from its most significant bit down.
save_bit_msb_first(j) == 31 - j

\* Bit of chunk position j that save_binary sets for an ALIVE cell.
save_bit(j) == j

\* The loops of Zoo::save_binary from chunk i, bit j, grid pointer (x, y) on.
\* Result: [err, bytes].
RECURSIVE save_loop(_, _, _, _, _, _, _, _, _)
save_loop(g, loops, i, j, x, y, outOfBounds, bufferInt, out) ==
    IF i >= loops THEN [err |-> "none", bytes |-> out]
    ELSE IF j >= 32 \/ outOfBounds
         THEN \* ofs.write((char*)&bufferInt, 4); bufferInt = 0;
              save_loop(g, loops, i + 1, 0, x, y, outOfBounds,
                        <<0, 0, 0, 0>>, out \o bufferInt)
    ELSE IF ~are_valid_coordinates(g, x, y)
         THEN [err |-> "runtime_error", bytes |-> out]
    ELSE LET buf == IF Cell_at(g, x, y) = ALIVE
                    THEN AddPow2(bufferInt, save_bit(j)) ELSE bufferInt
         IN IF x = g.width - 1
            THEN IF y = g.height - 1
                 THEN save_loop(g, loops, i, j + 1, x, y, TRUE, buf, out)
                 ELSE save_loop(g, loops, i, j + 1, 0, y + 1, FALSE, buf, out)
            ELSE save_loop(g, loops, i, j + 1, x + 1, y, FALSE, buf, out)

\* Zoo::save_binary(path, grid): the bytes written to the file.
save_binary(g) ==
    save_loop(g, chunk_loops(total_cells(g.width, g.height)), 0, 0, 0, 0, g.width = 0,
              <<0, 0, 0, 0>>, IntBytes(g.width) \o IntBytes(g.height))

\* ifs.read(buf, sizeOfInt) on the stream [bytes, pos, failed]: the bytes
\* left in buf and the stream afterwards.  A read that gets fewer than 4
\* bytes stores what it got and sets eofbit and failbit; on a stream that
\* has failed nothing is read.  Reading up to the last byte sets no flag.
stream_read(st, buf) ==
    LET avail == Len(st.bytes) - st.pos
    IN IF st.failed THEN [buf |-> buf, st |-> st]
       ELSE IF avail >= sizeOfInt
       THEN [buf |-> SubSeq(st.bytes, st.pos + 1, st.pos + sizeOfInt),
             st |-> [st EXCEPT !.pos = @ + sizeOfInt]]
       ELSE [buf |-> [k \in 1..sizeOfInt |->
                         IF k <= avail THEN st.bytes[st.pos + k] ELSE buf[k]],
             st |-> [st EXCEPT !.pos = Len(st.bytes), !.failed = TRUE]]

\* The header fields of load_binary in the order it reads them: the first
\* int of the file goes to height, the second to width.
header_fields(first, second) == [height |-> first, width |-> second]

\* The chunk loop of Zoo::load_binary from chunk i on, for a grid of n
\* cells.  Result: [err, what, grid].  Every set bit is written through the
\* mutable operator(), which throws std::runtime_error on invalid
\* coordinates.  A write with valid coordinates at an index outside the
\* vector (the product of width and height has wrapped) is undefined
\* behaviour: the outcome is taken from oracle.oob.  The cells of a grid
\* that is not held are not written; the file ends long before its loops do.
RECURSIVE load_loop(_, _, _, _, _, _, _)
load_loop(g, n, loops, i, st, bytesHolder, oracle) ==
    IF i >= loops
    THEN [err |-> "none", what |-> IF Held(n) THEN "" ELSE "cells not held",
          grid |-> g]
    ELSE IF st.failed
         THEN [err |-> "runtime_error", what |-> "Unexpected end of file", grid |-> g]
    ELSE LET rd == stream_read(st, bytesHolder)
             set == {j \in 0..(bitsInt - 1) : BitOf(rd.buf, j) = 1}
             \* unsigned % and / by the width
             xOf(j) == IF g.width < 0 THEN i * bitsInt + j
                       ELSE (i * bitsInt + j) % g.width
             yOf(j) == IF g.width < 0 THEN 0
                       ELSE (i * bitsInt + j) \div g.width
             invalid == {j \in set : ~are_valid_coordinates(g, xOf(j), yOf(j))}
             outside == {j \in set : ~ULess(get_index(g, xOf(j), yOf(j)), n)}
             written == IF ~Held(n) THEN g
                        ELSE [g EXCEPT !.gridVector =
                                [k \in 1..Len(g.gridVector) |->
                                   IF \E j \in set : get_index(g, xOf(j), yOf(j)) + 1 = k
                                   THEN ALIVE ELSE g.gridVector[k]]]
         IN IF invalid # {}
            THEN [err |-> "runtime_error", what |-> "Invalid coordinates", grid |-> g]
            ELSE IF outside # {} /\ oracle.oob = "crash"
            THEN [err |-> "crash", what |-> "write outside the vector", grid |-> g]
            ELSE load_loop(written, n, loops, i + 1, rd.st, rd.buf, oracle)

\* Zoo::load_binary(path) on the bytes of the file.  oracle gives what the
\* build leaves undefined: the initial bytes of the uninitialized height,
\* width and bytesHolder, whether an allocation that can fail does, and the
\* outcome of a write outside the vector.
load_binary(bytes, oracle) ==
    LET st0 == [bytes |-> bytes, pos |-> 0, failed |-> FALSE]
        r1 == stream_read(st0, oracle.height)
        r2 == stream_read(r1.st, oracle.width)
        hd == header_fields(BytesInt(r1.buf), BytesInt(r2.buf))
        width == hd.width
        height == hd.height
        n == total_cells(width, height)
    IN IF AllocMayFail(n) /\ ~oracle.alloc
       THEN [err |-> "bad_alloc", what |-> "", grid |-> Grid(0, 0)]
       ELSE LET r == load_loop([width |-> width, height |-> height,
                                gridVector |-> IF Held(n) THEN [k \in 1..n |-> DEAD]
                                               ELSE <<>>],
                               n, chunk_loops(n), 0, r2.st, oracle.bytesHolder, oracle)
            IN r

\* The values of an uninitialized int, as its bytes: every value.
Garbage == [1..sizeOfInt -> 0..255]

\* Every oracle of load_binary.
Oracles ==
    [height : Garbage, width : Garbage, bytesHolder : Garbage,
     alloc : BOOLEAN, oob : {"crash", "ignored"}]

\* What a variable holds where the code reads it and nothing has written
\* it: any value.
INDETERMINATE == "?"

\* The int that ifs.read leaves in a variable of which the file gave only
\* the first `given` bytes (b holds the 4 bytes): its value when all 4 were
\* given, and otherwise the given low bytes with the count of the high bytes
\* that stay as they were, each of them INDETERMINATE.
partial_int(b, given) ==
    IF given >= sizeOfInt THEN BytesInt(b)
    ELSE [given |-> SubSeq(b, 1, given), unread |-> sizeOfInt - given]

\* The bytes that a file of len bytes gives to the read of sizeOfInt bytes
\* at offset from.
bytes_given(len, from) ==
    IF len <= from THEN 0
    ELSE IF len >= from + sizeOfInt THEN sizeOfInt
    ELSE len - from

\* What the caller of load_binary observes when the call on the file bytes
\* ends as r, with every value that came from uninitialized memory held as
\* INDETERMINATE.  An exception returns no grid.  A returned grid holds
\*   - height and width as read: the bytes that the file did not give to the
\*     first and to the second read are indeterminate (a grid is returned
\*     only when width * height is 0 in 32 bits and no chunk is read);
\*   - cell j as indeterminate when bit j of the first chunk was not given
\*     by the file (a file of 8 to 11 bytes gives the first 8 * (len - 8)
\*     bits of bytesHolder): a set bit j of chunk 0 is written at
\*     x = j % width, y = j / width, that is at index j, and the call
\*     returns only when every set bit is the bit of a cell.
\* One observation stands for every call that differs from r only in the
\* values of what it marks indeterminate.
Observed(bytes, r) ==
    IF r.err # "none" THEN [r EXCEPT !.grid = Grid(0, 0)]
    ELSE LET len == Len(bytes)
             st0 == [bytes |-> bytes, pos |-> 0, failed |-> FALSE]
             zero == <<0, 0, 0, 0>>
             r1 == stream_read(st0, zero)
             r2 == stream_read(r1.st, zero)
             hd == header_fields(partial_int(r1.buf, bytes_given(len, 0)),
                                 partial_int(r2.buf, bytes_given(len, sizeOfInt)))
             firstBit == 8 * bytes_given(len, 2 * sizeOfInt)
         IN [r EXCEPT !.grid =
               [width |-> hd.width, height |-> hd.height,
                gridVector |->
                  [k \in 1..Len(r.grid.gridVector) |->
                     IF len >= 2 * sizeOfInt /\ k - 1 >= firstBit /\ k - 1 < bitsInt
                     THEN INDETERMINATE ELSE r.grid.gridVector[k]]]]

\* The values of an uninitialized int for which the load step is taken, as
\* bytes: 0, 1 and 2^32 - 1.
GarbageCases == {<<0, 0, 0, 0>>, <<1, 0, 0, 0>>, <<255, 255, 255, 255>>}

\* The values of the uninitialized bytesHolder for which the load step is
\* taken: no bit set, and every bit set.
HolderCases == {<<0, 0, 0, 0>>, <<255, 255, 255, 255>>}

\* The oracles for which the load step is taken on a file: between them they
\* give every observation (Observed) that an oracle of Oracles gives.
\*   - A header that ends early leaves the stream failed: the call returns
\*     when width * height is 0 in 32 bits, fails in the allocation when it
\*     can, and otherwise throws at the first test of eof().  The unread
\*     bytes as 0 give a product of 0 where there is one, as 1 or 255 a
\*     product that is not 0 where there is one, as 255 or as 1 a product
\*     for which the allocation can fail.  bytesHolder is never read.
\*   - A file that ends in its first chunk leaves the high bits of
\*     bytesHolder as they were.  Every set bit is written or throws on
\*     its own, the first that throws ends the call, and the cells that the
\*     others set are indeterminate: with none of these bits set the call
\*     goes as far as it can, with all of them set it throws or writes
\*     outside the vector if any of them does.
\*   - Both outcomes of the allocation where it can fail; both outcomes of
\*     a write outside the vector where the width or the height is 2^16 or
\*     more (a smaller product does not wrap).
OracleCases(bytes) ==
    LET zero == <<0, 0, 0, 0>>
        len == Len(bytes)
        st0 == [bytes |-> bytes, pos |-> 0, failed |-> FALSE]
        GarbageAt(from) == IF len < from + sizeOfInt THEN GarbageCases
                           ELSE {zero}
        Header(h, w) ==
            LET r1 == stream_read(st0, h)
                r2 == stream_read(r1.st, w)
            IN header_fields(r1.buf, r2.buf)
        large(b) == b[3] # 0 \/ b[4] # 0
    IN UNION {
         LET hd == Header(h, w)
             n == BytesInt(MulBytes(hd.width, hd.height))
         IN [height : {h}, width : {w},
             bytesHolder : IF len >= 2 * sizeOfInt /\ len < 3 * sizeOfInt
                           THEN HolderCases ELSE {zero},
             alloc : IF AllocMayFail(n) THEN BOOLEAN ELSE {TRUE},
             oob : IF large(hd.width) \/ large(hd.height)
                   THEN {"crash", "ignored"} ELSE {"ignored"}] :
         <<h, w>> \in GarbageAt(0) \X GarbageAt(sizeOfInt)}

\* Every observation of load_binary on a file that the load step can make.
load_observations(bytes) ==
    {Observed(bytes, load_binary(bytes, oracle)) : oracle \in OracleCases(bytes)}

\* A file written by another program in the documented layout: width, height,
\* then nchunks chunks in which exactly the bits of S are set.
ForeignFile(width, height, nchunks, S) ==
    IntBytes(width) \o IntBytes(height) \o
    [k \in 1..(sizeOfInt * nchunks) |->
        LET bits == {b \in 0..7 : (8 * (k - 1) + b) \in S}
            RECURSIVE Sum(_)
            Sum(T) == IF T = {} THEN 0
                      ELSE LET b == CHOOSE b \in T : TRUE
                           IN Pow2(b) + Sum(T \ {b})
        IN Sum(bits)]

\* The grids handed to save_binary.
CodecGrids ==
    UNION {GridsOf(width, height, MaxCodecAlive) :
             <<width, height>> \in
                {d \in (0..MaxCells) \X (0..MaxCells) : d[1] * d[2] <= MaxCells}}

NotLoaded == [called |-> FALSE, err |-> "none", what |-> "", grid |-> Grid(0, 0)]
NoFile == [bytes |-> <<>>, from |-> "none"]

\* ============================================================= Zoo: text
\* A text file is the sequence of its characters, each held as its code.
SPACE == 32
NEWLINE == 10
HASH == 35
ZERO == 48
\* The char that ifs.get() leaves at the end of the file: (char)EOF.
EOFCHAR == 255

\* (char)cell, as written by save_ascii.
CharOf(cell) == IF cell = ALIVE THEN HASH ELSE SPACE

\* ofs << n for an unsigned int: its decimal digits.  A value of 2^31 or more
\* is held as the int of the same bits; half is then the value without its
\* lowest bit.
RECURSIVE Decimal(_)
Decimal(n) ==
    IF n < 0
    THEN LET half == (2147483647 + (n \div 2)) + 1
         IN Append(Decimal(half \div 5), ZERO + 2 * (half % 5) + (n % 2))
    ELSE IF n < 10 THEN <<ZERO + n>>
    ELSE Append(Decimal(n \div 10), ZERO + (n % 10))

\* ofs << grid.get_width() << ' ' << grid.get_height() << '\n'
ascii_header(width, height) ==
    Decimal(width) \o <<SPACE>> \o Decimal(height) \o <<NEWLINE>>

\* The loops of Zoo::save_ascii from cell (x, y) on; the by-value grid is
\* read through the mutable operator().  Result: [err, bytes].
RECURSIVE save_ascii_loop(_, _, _, _)
save_ascii_loop(g, x, y, out) ==
    IF ~ULess(y, g.height) THEN [err |-> "none", bytes |-> out]
    ELSE IF ~ULess(x, g.width)
    THEN save_ascii_loop(g, 0, y + 1, Append(out, NEWLINE))
    ELSE LET rd == Grid_call(g, x, y)
         IN IF rd.err # "none" THEN [err |-> rd.err, bytes |-> out]
            ELSE save_ascii_loop(g, x + 1, y, Append(out, CharOf(rd.cell)))

\* Zoo::save_ascii(path, grid): the characters written to the file.
save_ascii(g) == save_ascii_loop(g, 0, 0, ascii_header(g.width, g.height))

\* ifs.get() at position pos (0-based) of the file.
stream_get(bytes, pos) == IF pos < Len(bytes) THEN bytes[pos + 1] ELSE EOFCHAR

\* std::isspace
IsSpace(c) == c = SPACE \/ c \in 9..13
IsDigit(c) == c \in ZERO..(ZERO + 9)

\* The digits of std::stoi from position k of s on.  nv is minus the value
\* so far and lowest the lowest value of nv that is in range: INT_MIN after
\* a minus sign, -INT_MAX otherwise.  Result: [err, value], value being nv;
\* digits that leave the range are std::out_of_range.
RECURSIVE stoi_digits(_, _, _, _)
stoi_digits(s, k, nv, lowest) ==
    IF k > Len(s) \/ ~IsDigit(s[k]) THEN [err |-> "none", value |-> nv]
    ELSE LET d == s[k] - ZERO
         IN IF nv < (lowest + d + 9) \div 10
            THEN [err |-> "out_of_range", value |-> 0]
            ELSE stoi_digits(s, k + 1, 10 * nv - d, lowest)

\* std::stoi(s): leading white space is skipped, a sign is accepted, the
\* digits are read up to the first other character; no digit at all is
\* std::invalid_argument.  Result: [err, value].
stoi(s) ==
    LET RECURSIVE skip(_)
        skip(k) == IF k <= Len(s) /\ IsSpace(s[k]) THEN skip(k + 1) ELSE k
        k0 == skip(1)
        signed == k0 <= Len(s) /\ s[k0] \in {43, 45}
        minus == signed /\ s[k0] = 45
        k1 == IF signed THEN k0 + 1 ELSE k0
        r == stoi_digits(s, k1, 0, IF minus THEN -2147483647 - 1 ELSE -2147483647)
    IN IF k1 > Len(s) \/ ~IsDigit(s[k1])
       THEN [err |-> "invalid_argument", value |-> 0]
       ELSE IF r.err # "none" THEN r
       ELSE IF minus THEN r
       ELSE [err |-> "none", value |-> 0 - r.value]

\* Position of the first character c of the file at or after pos, or -1: the
\* loops  while (inC != c) { intermediateS += inC; inC = ifs.get(); }  end
\* there, and never end when there is none (at the end of the file get()
\* keeps returning EOF, and the string grows until an allocation fails).
RECURSIVE find_char(_, _, _)
find_char(bytes, pos, c) ==
    IF pos >= Len(bytes) THEN -1
    ELSE IF bytes[pos + 1] = c THEN pos
    ELSE find_char(bytes, pos + 1, c)

\* What the build leaves open in Zoo::load_ascii: "bad_alloc" is an
\* allocation that fails where it can fail; a cell written with valid
\* coordinates outside the vector (the product of width and height has
\* wrapped) is undefined behaviour, which ends the process ("crash") or
\* goes on ("runs").
AsciiOracles == {"bad_alloc", "runs", "crash"}

\* The cell loops of Zoo::load_ascii from cell (x, y) on, for a grid of n
\* cells, the next character of the file being at pos.  Result: [err, what,
\* grid].  The cells of a grid that is not held are not written.  The test
\* y != height - 1 is made as y + 1 != height.
RECURSIVE load_ascii_loop(_, _, _, _, _, _, _)
load_ascii_loop(bytes, pos, g, n, x, y, oracle) ==
    IF ~ULess(y, g.height)
    THEN [err |-> "none", what |-> IF Held(n) THEN "" ELSE "cells not held",
          grid |-> g]
    ELSE IF ~ULess(x, g.width)
    THEN IF stream_get(bytes, pos) # NEWLINE /\ y + 1 # g.height
         THEN [err |-> "runtime_error",
               what |-> "load_ascii() : Missing new line character when expected.",
               grid |-> g]
         ELSE load_ascii_loop(bytes, pos + 1, g, n, 0, y + 1, oracle)
    ELSE LET inC == stream_get(bytes, pos)
             inside == ULess(get_index(g, x, y), n)
             w == IF inside /\ Held(n)
                  THEN Grid_call_put(g, x, y, IF inC = HASH THEN ALIVE ELSE DEAD)
                  ELSE [err |-> IF are_valid_coordinates(g, x, y)
                                THEN "none" ELSE "runtime_error",
                        grid |-> g]
         IN IF inC \notin {HASH, SPACE}
            THEN [err |-> "runtime_error",
                  what |-> "load_ascii() : Character for a cell is incorrect.",
                  grid |-> g]
            ELSE IF w.err # "none" THEN [err |-> w.err, what |-> "", grid |-> g]
            ELSE IF ~inside /\ oracle = "crash"
            THEN [err |-> "crash", what |-> "write outside the vector", grid |-> g]
            ELSE load_ascii_loop(bytes, pos + 1, w.grid, n, x + 1, y, oracle)

\* Zoo::load_ascii(path) on a file of the given characters.
\* Result: [err, what, grid].
load_ascii(bytes, oracle) ==
    LET sp == find_char(bytes, 0, SPACE)
        nl == IF sp < 0 THEN -1 ELSE find_char(bytes, sp, NEWLINE)
        width == stoi(SubSeq(bytes, 1, sp))
        height == stoi(SubSeq(bytes, sp + 1, nl))
        n == total_cells(width.value, height.value)
        fail(e, w) == [err |-> e, what |-> w, grid |-> Grid(0, 0)]
    IN IF sp < 0 THEN fail("bad_alloc", "")
       ELSE IF width.err = "invalid_argument"
       THEN fail("runtime_error",
                 "load_ascii() : Cannot parse width, invalid input argument.")
       ELSE IF width.err = "out_of_range"
       THEN fail("runtime_error", "load_ascii() : Cannot parse width, out of range.")
       ELSE IF nl < 0 THEN fail("bad_alloc", "")
       ELSE IF height.err = "invalid_argument"
       THEN fail("runtime_error",
                 "load_ascii() : Cannot parse height, invalid input argument.")
       ELSE IF height.err = "out_of_range"
       THEN fail("runtime_error", "load_ascii() : Cannot parse height, out of range.")
       ELSE IF AllocMayFail(n) /\ oracle = "bad_alloc" THEN fail("bad_alloc", "")
       ELSE load_ascii_loop(bytes, nl + 1,
                            [width |-> width.value, height |-> height.value,
                             gridVector |-> IF Held(n) THEN [k \in 1..n |-> DEAD]
                                            ELSE <<>>],
                            n, 0, 0, oracle)

\* ------------------------------------------------------- codec: behaviour
CodecIdle == file = NoFile /\ saved = Grid(0, 0) /\ loaded = NotLoaded
WorldIdle ==
    /\ currGrid = Grid(0, 0) /\ nextGrid = Grid(0, 0) /\ twin = World_sized(0, 0)
    /\ start_state = Grid(0, 0)
    /\ op = [name |-> "none"] /\ err = "none" /\ nops = 0

GridIdle == grid = Grid(0, 0) /\ gop = [name |-> "none"]

CodecInit == WorldIdle /\ CodecIdle /\ GridIdle

\* Zoo::save_binary(path, g)
SaveBinary(g) ==
    /\ LET s == save_binary(g)
       IN file' = [bytes |-> s.bytes, from |-> "save_binary"]
    /\ saved' = g
    /\ loaded' = NotLoaded
    /\ UNCHANGED <<worldVars, gridVars>>

\* Another program writes the file.
WriteForeign(width, height, nchunks, S) ==
    /\ file' = [bytes |-> ForeignFile(width, height, nchunks, S), from |-> "foreign"]
    /\ loaded' = NotLoaded
    /\ UNCHANGED <<saved, worldVars, gridVars>>

\* The saved file loses its end: only its first keep bytes remain.
Truncate(keep) ==
    /\ file.from = "save_binary"
    /\ keep < Len(file.bytes)
    /\ file' = [bytes |-> SubSeq(file.bytes, 1, keep), from |-> "truncated"]
    /\ loaded' = NotLoaded
    /\ UNCHANGED <<saved, worldVars, gridVars>>

\* Zoo::load_binary(path)
LoadBinary(oracle) ==
    /\ file.from # "none"
    /\ ~loaded.called
    /\ LET r == Observed(file.bytes, load_binary(file.bytes, oracle))
       IN loaded' = [called |-> TRUE, err |-> r.err, what |-> r.what, grid |-> r.grid]
    /\ UNCHANGED <<file, saved, worldVars, gridVars>>

CodecNext ==
    \/ /\ file.from = "none"
       /\ \E g \in CodecGrids : SaveBinary(g)
    \/ /\ file.from = "none"
       /\ \E width \in -1..MaxForeignDim, height \in -1..MaxForeignDim,
             nchunks \in 0..MaxForeignChunks :
             \E S \in IndexSets(bitsInt * nchunks, MaxForeignBits) :
                WriteForeign(width, height, nchunks, {b - 1 : b \in S})
    \/ \E keep \in 0..(2 * sizeOfInt + sizeOfInt * chunk_loops(MaxCells)) : Truncate(keep)
    \/ \E oracle \in OracleCases(file.bytes) : LoadBinary(oracle)

CodecSpec == CodecInit /\ [][CodecNext]_vars

\* -------------------------------------------------- text codec: behaviour
\* Widths near the largest int and the largest unsigned int: INT_MAX, 2^31,
\* 2^32 - 1.
WideWidths == {2147483647, -2147483647 - 1, -1}

\* The grids given to save_ascii: the small ones, and the grids without rows
\* (height 0, no cell) of a wide width.
AsciiGrids ==
    UNION {GridsOf(width, height, MaxAsciiAlive) :
             <<width, height>> \in
                {d \in (0..MaxAsciiDim) \X (0..MaxAsciiDim) :
                    d[1] * d[2] <= MaxAsciiCells}}
    \cup {Grid(width, 0) : width \in WideWidths}

\* Zoo::save_ascii(path, g)
SaveAscii(g) ==
    /\ LET s == save_ascii(g)
       IN file' = [bytes |-> s.bytes, from |-> "save_ascii"]
    /\ saved' = g
    /\ loaded' = NotLoaded
    /\ UNCHANGED <<worldVars, gridVars>>

\* The saved text file loses its end: only its first keep characters remain.
CutAscii(keep) ==
    /\ file.from = "save_ascii"
    /\ keep < Len(file.bytes)
    /\ file' = [bytes |-> SubSeq(file.bytes, 1, keep), from |-> "cut"]
    /\ loaded' = NotLoaded
    /\ UNCHANGED <<saved, worldVars, gridVars>>

\* Zoo::load_ascii(path)
LoadAscii(oracle) ==
    /\ file.from # "none"
    /\ ~loaded.called
    /\ LET r == load_ascii(file.bytes, oracle)
       IN loaded' = [called |-> TRUE, err |-> r.err, what |-> r.what, grid |-> r.grid]
    /\ UNCHANGED <<file, saved, worldVars, gridVars>>

AsciiNext ==
    \/ /\ file.from = "none"
       /\ \E g \in AsciiGrids : SaveAscii(g)
    \/ \E keep \in 0..(MaxAsciiCells + MaxAsciiDim + 6) : CutAscii(keep)
    \/ \E oracle \in AsciiOracles : LoadAscii(oracle)

AsciiSpec == CodecInit /\ [][AsciiNext]_vars

\* ------------------------------------------------------- World: behaviour
World_of(r) == [currGrid |-> r.currGrid, nextGrid |-> r.nextGrid]

\* The World under test, as a record.
world == [currGrid |-> currGrid, nextGrid |-> nextGrid]

\* A World is constructed from its size or from a grid.
Init ==
    /\ \E width \in 0..MaxW, height \in 0..MaxH :
        \/ /\ currGrid = World_sized(width, height).currGrid
           /\ nextGrid = World_sized(width, height).nextGrid
           /\ start_state = Grid(width, height)
           /\ op = [name |-> "World", from_grid |-> FALSE]
        \/ \E g \in GridsOf(width, height, MaxAlive) :
              /\ currGrid = World_from(g).currGrid
              /\ nextGrid = World_from(g).nextGrid
              /\ start_state = g
              /\ op = [name |-> "World", from_grid |-> TRUE]
    /\ twin = World_sized(0, 0)
    /\ err = "none"
    /\ nops = 0
    /\ CodecIdle
    /\ GridIdle

Step(torodial) ==
    /\ nops < MaxOps
    /\ LET s == World_step(world, torodial)
       IN /\ currGrid' = s.currGrid
          /\ nextGrid' = s.nextGrid
          /\ err' = s.err
    /\ op' = [name |-> "step", torodial |-> torodial]
    /\ nops' = nops + 1
    /\ UNCHANGED <<twin, start_state, codecVars, gridVars>>

Advance(steps, torodial) ==
    /\ nops < MaxOps
    /\ LET s == World_advance(world, steps, torodial)
       IN /\ currGrid' = s.currGrid
          /\ nextGrid' = s.nextGrid
          /\ err' = s.err
    /\ op' = [name |-> "advance", steps |-> steps, torodial |-> torodial]
    /\ nops' = nops + 1
    /\ UNCHANGED <<twin, start_state, codecVars, gridVars>>

Resize(new_width, new_height) ==
    /\ nops < MaxOps
    /\ LET s == World_resize(world, new_width, new_height)
       IN /\ currGrid' = s.currGrid
          /\ nextGrid' = s.nextGrid
    /\ err' = "none"
    /\ op' = [name |-> "resize", new_width |-> new_width, new_height |-> new_height]
    /\ nops' = nops + 1
    /\ UNCHANGED <<twin, start_state, codecVars, gridVars>>

Next ==
    \/ \E torodial \in BOOLEAN : Step(torodial)
    \/ \E steps \in 0..MaxSteps, torodial \in BOOLEAN : Advance(steps, torodial)
    \/ \E new_width \in 0..MaxW, new_height \in 0..MaxH : Resize(new_width, new_height)

Spec == Init /\ [][Next]_vars

\* ------------------------------------------- two Worlds, one current grid
\* The World under test is built from a grid; the twin is built from the
\* same grid and resized to the size it already has, which resets its next
\* buffer.  Both then run the same operations.
TwinInit ==
    /\ \E width \in 0..MaxW, height \in 0..MaxH :
         \E g \in GridsOf(width, height, MaxAlive) :
              /\ currGrid = World_from(g).currGrid
              /\ nextGrid = World_from(g).nextGrid
              /\ twin = World_resize(World_from(g), width, height)
              /\ start_state = g
    /\ op = [name |-> "World", from_grid |-> TRUE]
    /\ err = "none"
    /\ nops = 0
    /\ CodecIdle
    /\ GridIdle

TwinStep(torodial) ==
    /\ nops < MaxOps
    /\ LET s == World_step(world, torodial)
       IN /\ currGrid' = s.currGrid
          /\ nextGrid' = s.nextGrid
          /\ err' = s.err
    /\ twin' = World_of(World_step(twin, torodial))
    /\ op' = [name |-> "step", torodial |-> torodial]
    /\ nops' = nops + 1
    /\ UNCHANGED <<start_state, codecVars, gridVars>>

TwinNext == \E torodial \in BOOLEAN : TwinStep(torodial)

TwinSpec == TwinInit /\ [][TwinNext]_vars

\* Zoo::save_binary alone, on every grid of CodecGrids.
EncodeNext ==
    /\ file.from = "none"
    /\ \E g \in CodecGrids : SaveBinary(g)

EncodeSpec == CodecInit /\ [][EncodeNext]_vars

\* -------------------------------------------------------- Grid: behaviour
\* A Grid is constructed and its cells are set.
GridInit ==
    /\ WorldIdle /\ CodecIdle
    /\ \E width \in 0..MaxW, height \in 0..MaxH :
         \E g \in GridsOf(width, height, MaxGridAlive) : grid = g
    /\ gop = [name |-> "Grid"]

\* grid.crop(x0, y0, x1, y1)
Crop(x0, y0, x1, y1) ==
    /\ LET r == Grid_crop(grid, x0, y0, x1, y1)
       IN gop' = [name |-> "crop", x0 |-> x0, y0 |-> y0, x1 |-> x1, y1 |-> y1,
                  err |-> r.err, result |-> r.grid]
    /\ UNCHANGED <<grid, worldVars, codecVars>>

\* grid.rotate(rotation)
Rotate(rotation) ==
    /\ LET r == Grid_rotate(grid, rotation)
       IN gop' = [name |-> "rotate", rotation |-> rotation, times |-> 1,
                  receiver |-> grid, err |-> r.err, result |-> r.grid]
    /\ UNCHANGED <<grid, worldVars, codecVars>>

\* The Grid the last rotate returned is rotated again by the same rotation:
\* grid.rotate(k).rotate(k) ...
RotateAgain ==
    /\ gop.name = "rotate"
    /\ gop.err = "none"
    /\ gop.times < MaxTurns
    /\ LET r == Grid_rotate(gop.result, gop.rotation)
       IN gop' = [gop EXCEPT !.times = @ + 1, !.receiver = gop.result,
                             !.err = r.err, !.result = r.grid]
    /\ UNCHANGED <<grid, worldVars, codecVars>>

\* grid.resize(new_width, new_height)
GridResize(new_width, new_height) ==
    /\ grid' = Grid_resize(grid, new_width, new_height)
    /\ gop' = [name |-> "resize", new_width |-> new_width,
               new_height |-> new_height, before |-> grid]
    /\ UNCHANGED <<worldVars, codecVars>>

\* One operation on a constructed grid; rotate calls may be chained.
GridNext ==
    \/ /\ gop.name = "Grid"
       /\ \E x0 \in 0..(MaxW + 1), y0 \in 0..(MaxH + 1),
             x1 \in 0..(MaxW + 1), y1 \in 0..(MaxH + 1) : Crop(x0, y0, x1, y1)
    \/ /\ gop.name = "Grid"
       /\ \E rotation \in (0 - MaxRotation)..MaxRotation : Rotate(rotation)
    \/ RotateAgain
    \/ /\ gop.name = "Grid"
       /\ \E new_width \in 0..MaxW, new_height \in 0..MaxH :
             GridResize(new_width, new_height)

GridSpec == GridInit /\ [][GridNext]_vars

\* grid.merge(other, x0, y0, alive_only), once on a constructed grid.
Merge(other, x0, y0, alive_only) ==
    /\ LET r == Grid_merge(grid, other, x0, y0, alive_only)
       IN /\ grid' = r.grid
          /\ gop' = [name |-> "merge", other |-> other, x0 |-> x0, y0 |-> y0,
                     alive_only |-> alive_only, before |-> grid, err |-> r.err]
    /\ UNCHANGED <<worldVars, codecVars>>

\* The grids passed to merge.
OtherGrids ==
    UNION {GridsOf(width, height, MaxOtherAlive) :
             width \in 0..MaxOtherDim, height \in 0..MaxOtherDim}

MergeNext ==
    /\ gop.name = "Grid"
    /\ \E other \in OtherGrids, x0 \in 0..MaxW, y0 \in 0..MaxH,
          alive_only \in BOOLEAN : Merge(other, x0, y0, alive_only)

MergeSpec == GridInit /\ [][MergeNext]_vars

\* ------------------------------------------------- Grid: cell access
\* The coordinates passed to the accessors; -1 is the unsigned int 2^32 - 1.
AccessX == -1..MaxW
AccessY == -1..MaxH

\* The outcome of reading (x, y) of g through get, the const operator() or
\* the mutable operator().
ReadBy(how, g, x, y) ==
    CASE how = "get" -> Grid_get(g, x, y)
      [] how = "operator() const" -> Grid_call_const(g, x, y)
      [] how = "operator()" -> Grid_call(g, x, y)

ReadWays == {"get", "operator() const", "operator()"}
WriteWays == {"set", "operator()"}

\* grid.set(x, y, cell), or grid(x, y) = cell.
GridWrite(how, x, y, cell) ==
    /\ gop.name = "Grid"
    /\ LET r == IF how = "set" THEN Grid_set(grid, x, y, cell)
                ELSE Grid_call_put(grid, x, y, cell)
       IN /\ grid' = r.grid
          /\ gop' = [name |-> "write", how |-> how, x |-> x, y |-> y,
                     cell |-> cell, err |-> r.err, before |-> grid]
    /\ UNCHANGED <<worldVars, codecVars>>

\* A read of (x, y) on a constructed grid.
GridRead(how, x, y) ==
    /\ gop.name = "Grid"
    /\ LET r == ReadBy(how, grid, x, y)
       IN gop' = [name |-> "read", how |-> how, x |-> x, y |-> y,
                  err |-> r.err, cell |-> r.cell, after |-> gop]
    /\ UNCHANGED <<grid, worldVars, codecVars>>

\* A read of the cell the last write was aimed at.
GridReadBack(how) ==
    /\ gop.name = "write"
    /\ LET r == ReadBy(how, grid, gop.x, gop.y)
       IN gop' = [name |-> "read", how |-> how, x |-> gop.x, y |-> gop.y,
                  err |-> r.err, cell |-> r.cell, after |-> gop]
    /\ UNCHANGED <<grid, worldVars, codecVars>>

AccessNext ==
    \/ \E how \in WriteWays, x \in AccessX, y \in AccessY, cell \in {DEAD, ALIVE} :
          GridWrite(how, x, y, cell)
    \/ \E how \in ReadWays, x \in AccessX, y \in AccessY : GridRead(how, x, y)
    \/ \E how \in ReadWays : GridReadBack(how)

AccessSpec == GridInit /\ [][AccessNext]_vars

\* ================================================================ claims
\* What the claims speak of, stated without the code's loops.
InBounds(g) == (0..(g.width - 1)) \X (0..(g.height - 1))
AliveAt(g, x, y) == g.gridVector[y * g.width + x + 1] = ALIVE
Around == ((-1..1) \X (-1..1)) \ {<<0, 0>>}

\* ALIVE cells among the neighbours of (x, y) that lie inside the grid.
BoundedCount(g, x, y) ==
    Cardinality({d \in Around :
        /\ x + d[1] \in 0..(g.width - 1)
        /\ y + d[2] \in 0..(g.height - 1)
        /\ AliveAt(g, x + d[1], y + d[2])})

\* ALIVE cells over the 8 neighbour slots, each axis wrapping on its own.
TorusCount(g, x, y) ==
    Cardinality({d \in Around :
        AliveAt(g, (x + d[1]) % g.width, (y + d[2]) % g.height)})

\* The transition rule on the pre-step grid g.
RuleAlive(g, x, y, wrap) ==
    LET n == IF wrap THEN TorusCount(g, x, y) ELSE BoundedCount(g, x, y)
    IN \/ AliveAt(g, x, y) /\ n \in {2, 3}
       \/ ~AliveAt(g, x, y) /\ n = 3

\* C1: after a step that completes, the new current grid has the size of the
\* old one and every cell of it is ALIVE exactly when the rule, applied to
\* the pre-step current grid, says so; no cell is left uncomputed.
C1_StepAppliesRule ==
    [][(op'.name = "step" /\ err' = "none") =>
          /\ currGrid'.width = currGrid.width
          /\ currGrid'.height = currGrid.height
          /\ \A c \in InBounds(currGrid) :
                AliveAt(currGrid', c[1], c[2])
                   <=> RuleAlive(currGrid, c[1], c[2], op'.torodial)]_vars

\* C2: two Worlds with equal current grids and different next buffers have
\* equal current grids after the same steps.
C2_NextBufferIrrelevant == currGrid = twin.currGrid

\* C3: every step call completes without an error and swaps the buffers: the
\* next buffer afterwards is the current grid of before.
C3_StepTotal ==
    [][op'.name = "step" => (err' = "none" /\ nextGrid' = currGrid)]_vars

\* C4: bounded count_neighbours returns, without error, the number of ALIVE
\* in-grid neighbours, a value in 0..8, for every cell of every grid with
\* width >= 1 and height >= 1.
C4_BoundedNeighbours ==
    \A c \in InBounds(currGrid) :
        LET r == count_neighbours(currGrid, c[1], c[2], FALSE)
        IN /\ r.err = "none"
           /\ r.counter = BoundedCount(currGrid, c[1], c[2])
           /\ r.counter \in 0..8

\* C5: toroidal count_neighbours returns, without error, the number of ALIVE
\* cells over the 8 wrapped neighbour slots, for every cell of every grid
\* with width >= 1 and height >= 1.
C5_ToroidalNeighbours ==
    \A c \in InBounds(currGrid) :
        LET r == count_neighbours(currGrid, c[1], c[2], TRUE)
        IN /\ r.err = "none"
           /\ r.counter = TorusCount(currGrid, c[1], c[2])

\* --------------------------------------------------- the binary layout
\* The value of 4 bytes, least significant first.
LittleEndian(b, at) ==
    b[at + 1] + 256 * b[at + 2] + 65536 * b[at + 3]
      + 16777216 * (IF b[at + 4] >= 128 THEN b[at + 4] - 256 ELSE b[at + 4])

\* ceil(n / 32)
Chunks(n) == (n + 31) \div 32

\* Bit (i mod 32), least significant first, of chunk (i div 32) of a file.
FileBit(b, i) == (b[8 + (i \div 8) + 1] \div Pow2(i % 8)) % 2

DeclaredWidth(b) == LittleEndian(b, 0)
DeclaredHeight(b) == LittleEndian(b, 4)
DeclaredCells(b) == DeclaredWidth(b) * DeclaredHeight(b)

\* A complete stream in the layout, with its padding bits 0.
WellFormed(b) ==
    /\ Len(b) >= 8
    /\ DeclaredWidth(b) >= 0 /\ DeclaredHeight(b) >= 0
    /\ Len(b) = 8 + 4 * Chunks(DeclaredCells(b))
    /\ \A i \in DeclaredCells(b)..(32 * Chunks(DeclaredCells(b)) - 1) : FileBit(b, i) = 0

\* A stream with fewer bytes than its header promises, or with no whole header.
Truncated(b) ==
    \/ Len(b) < 8
    \/ /\ DeclaredWidth(b) >= 0 /\ DeclaredHeight(b) >= 0
       /\ Len(b) < 8 + 4 * Chunks(DeclaredCells(b))

\* C6: loading the bytes that save_binary wrote for a grid yields a grid
\* with the same width, height and cells.
C6_BinaryRoundTrip ==
    (loaded.called /\ file.from = "save_binary") =>
        (loaded.err = "none" /\ loaded.grid = saved)

\* C7: load_binary of a well-formed stream returns a grid whose width is the
\* first int and whose height is the second int of the stream, and whose
\* cell (i mod width, i div width) is ALIVE exactly when bit i mod 32 of
\* chunk i div 32 is 1, for every i < width * height.
C7_DecodeLayout ==
    (loaded.called /\ WellFormed(file.bytes)) =>
        /\ loaded.err = "none"
        /\ loaded.grid.width = DeclaredWidth(file.bytes)
        /\ loaded.grid.height = DeclaredHeight(file.bytes)
        /\ Len(loaded.grid.gridVector) = DeclaredCells(file.bytes)
        /\ \A i \in 0..(DeclaredCells(file.bytes) - 1) :
              loaded.grid.gridVector[i + 1] = ALIVE <=> FileBit(file.bytes, i) = 1

\* C8: save_binary writes the width, then the height, then exactly
\* ceil(width * height / 32) chunks of 4 bytes; bit i mod 32 of chunk i div 32
\* is 1 exactly when the cell of row-major index i is ALIVE, and every bit
\* at an index >= width * height is 0.
C8_EncodeLayout ==
    file.from = "save_binary" =>
        LET b == file.bytes
            n == saved.width * saved.height
        IN /\ Len(b) = 8 + 4 * Chunks(n)
           /\ LittleEndian(b, 0) = saved.width
           /\ LittleEndian(b, 4) = saved.height
           /\ \A i \in 0..(32 * Chunks(n) - 1) :
                 FileBit(b, i) = 1
                    <=> (i < n /\ AliveAt(saved, i % saved.width, i \div saved.width))

\* C8 witness: a saved grid of 33 cells whose last cell, the first bit of the
\* second chunk, is ALIVE.
C8_Witness ==
    /\ file.from = "save_binary"
    /\ saved.width * saved.height = 33
    /\ saved.width > saved.height
    /\ saved.gridVector[33] = ALIVE
    /\ Len(file.bytes) = 16

\* C9: load_binary of a truncated stream fails with the end-of-file error and
\* returns no grid.
C9_TruncatedFails ==
    (loaded.called /\ Truncated(file.bytes)) =>
        (loaded.err = "runtime_error" /\ loaded.what = "Unexpected end of file")

\* C10: load_binary of a stream whose header declares a negative width or a
\* negative height fails and returns no grid.
C10_NegativeHeaderFails ==
    (/\ loaded.called
     /\ Len(file.bytes) >= 8
     /\ (DeclaredWidth(file.bytes) < 0 \/ DeclaredHeight(file.bytes) < 0)) =>
        loaded.err # "none"

\* A complete stream for its header: non-negative width and height and
\* exactly the chunks they call for (its padding bits may hold anything).
Complete(b) ==
    /\ Len(b) >= 8
    /\ DeclaredWidth(b) >= 0 /\ DeclaredHeight(b) >= 0
    /\ Len(b) = 8 + 4 * Chunks(DeclaredCells(b))

\* The stream with every bit at an index >= width * height set to 0.
ClearPadding(b) ==
    [k \in 1..Len(b) |->
        IF k <= 8 THEN b[k]
        ELSE LET cellBits == DeclaredCells(b) - 8 * (k - 9)
                 kept == IF cellBits < 0 THEN 0 ELSE IF cellBits > 8 THEN 8 ELSE cellBits
             IN b[k] % Pow2(kept)]

\* C11: load_binary of a complete stream ignores the bits of the final chunk
\* at an index >= width * height: it raises no error and returns the grid it
\* returns for the same stream with those bits 0.
C11_PaddingIgnored ==
    (loaded.called /\ Complete(file.bytes)) =>
        LET cleared == ClearPadding(file.bytes)
            plain == Observed(cleared, load_binary(cleared, CHOOSE o \in OracleCases(cleared) : TRUE))
        IN /\ loaded.err = "none"
           /\ loaded.grid = plain.grid

\* ------------------------------------------------------- Grid operations
\* Cell (x, y) of a grid, row-major.
CellOf(g, x, y) == g.gridVector[y * g.width + x + 1]

\* other fits into g at (x0, y0).
Fits(g, other, x0, y0) ==
    x0 + other.width <= g.width /\ y0 + other.height <= g.height

\* (x, y) lies in the window other covers at (x0, y0).
InWindow(other, x0, y0, x, y) ==
    /\ x0 <= x /\ x < x0 + other.width
    /\ y0 <= y /\ y < y0 + other.height

\* The last operation was a merge of a grid that fits, and it completed.
Merged ==
    /\ gop.name = "merge"
    /\ Fits(gop.before, gop.other, gop.x0, gop.y0)
    /\ gop.err = "none"

\* C12: after a completed merge with alive_only = false of a grid that fits
\* at (x0, y0), every destination cell inside the window equals the source
\* cell it is covered by and every cell outside the window is unchanged.
C12_MergeOverwrites ==
    (Merged /\ ~gop.alive_only) =>
        /\ grid.width = gop.before.width /\ grid.height = gop.before.height
        /\ \A c \in InBounds(gop.before) :
              CellOf(grid, c[1], c[2]) =
                 IF InWindow(gop.other, gop.x0, gop.y0, c[1], c[2])
                 THEN CellOf(gop.other, c[1] - gop.x0, c[2] - gop.y0)
                 ELSE CellOf(gop.before, c[1], c[2])

\* C13: after a completed merge with alive_only = true of a grid that fits,
\* a destination cell inside the window is ALIVE exactly when it was ALIVE
\* before or its source cell is ALIVE, and every cell outside the window is
\* unchanged.
C13_MergeAliveOnly ==
    (Merged /\ gop.alive_only) =>
        /\ grid.width = gop.before.width /\ grid.height = gop.before.height
        /\ \A c \in InBounds(gop.before) :
              IF InWindow(gop.other, gop.x0, gop.y0, c[1], c[2])
              THEN CellOf(grid, c[1], c[2]) = ALIVE <=>
                      \/ CellOf(gop.before, c[1], c[2]) = ALIVE
                      \/ CellOf(gop.other, c[1] - gop.x0, c[2] - gop.y0) = ALIVE
              ELSE CellOf(grid, c[1], c[2]) = CellOf(gop.before, c[1], c[2])

\* C14: merge ends with invalid_argument when other does not fit at (x0, y0)
\* and completes without an error when it fits.
C14_MergeFailsIffNoFit ==
    gop.name = "merge" =>
        IF Fits(gop.before, gop.other, gop.x0, gop.y0)
        THEN gop.err = "none"
        ELSE gop.err = "invalid_argument"

\* C15: a merge that ends with an error leaves the destination grid with the
\* width, height and cells it had before the call.
C15_MergeFailureAtomic ==
    (gop.name = "merge" /\ gop.err # "none") => grid = gop.before

\* C16: crop ends with invalid_argument when x0 > width, x1 > width,
\* y0 > height, y1 > height, x0 > x1 or y0 > y1, and returns a grid for every
\* other window.
C16_CropFailsIffBadWindow ==
    gop.name = "crop" =>
        IF \/ gop.x0 > grid.width \/ gop.x1 > grid.width
           \/ gop.y0 > grid.height \/ gop.y1 > grid.height
           \/ gop.x0 > gop.x1 \/ gop.y0 > gop.y1
        THEN gop.err = "invalid_argument"
        ELSE gop.err = "none"

\* C17: a crop that completes returns a grid of width x1 - x0 and height
\* y1 - y0 whose cell (i, j) is the source cell (x0 + i, y0 + j), and leaves
\* the source grid as it was.
C17_CropWindow ==
    [][(gop'.name = "crop" /\ gop'.err = "none") =>
          /\ grid' = grid
          /\ gop'.result.width = gop'.x1 - gop'.x0
          /\ gop'.result.height = gop'.y1 - gop'.y0
          /\ Len(gop'.result.gridVector) = (gop'.x1 - gop'.x0) * (gop'.y1 - gop'.y0)
          /\ \A c \in InBounds(gop'.result) :
                CellOf(gop'.result, c[1], c[2])
                   = CellOf(grid, gop'.x0 + c[1], gop'.y0 + c[2])]_vars

\* C17 witness: a completed crop of a window away from the origin, wider than
\* high, that holds an ALIVE and a DEAD cell and leaves an ALIVE cell out.
C17_Witness ==
    /\ gop.name = "crop" /\ gop.err = "none"
    /\ gop.x0 > 0 /\ gop.y0 > 0
    /\ gop.result.width = 2 /\ gop.result.height = 1
    /\ gop.result.gridVector = <<DEAD, ALIVE>>
    /\ Cardinality({k \in DOMAIN grid.gridVector : grid.gridVector[k] = ALIVE}) = 2

\* C18: after resize(new_width, new_height) the grid has the new width and
\* height, every cell inside the old and the new size holds what it held
\* before, and every other cell is DEAD.
C18_ResizeKeepsOverlap ==
    gop.name = "resize" =>
        /\ grid.width = gop.new_width
        /\ grid.height = gop.new_height
        /\ Len(grid.gridVector) = gop.new_width * gop.new_height
        /\ \A c \in InBounds(grid) :
              CellOf(grid, c[1], c[2]) =
                 IF c[1] < gop.before.width /\ c[2] < gop.before.height
                 THEN CellOf(gop.before, c[1], c[2])
                 ELSE DEAD

\* C18 witness: a resize that shrinks the width and grows the height, keeping
\* one ALIVE cell off the first row and dropping another.
C18_Witness ==
    /\ gop.name = "resize"
    /\ gop.new_width < gop.before.width /\ gop.new_width > 1
    /\ gop.new_height > gop.before.height
    /\ Cardinality({k \in DOMAIN gop.before.gridVector :
                       gop.before.gridVector[k] = ALIVE}) = 2
    /\ \E c \in InBounds(grid) : c[2] > 0 /\ CellOf(grid, c[1], c[2]) = ALIVE

\* C19: rotate(k) completes and returns the grid rotate(k mod 4) returns, for
\* negative, zero and positive k, and the returned grid has as many cells as
\* the source.
C19_RotateModFour ==
    (gop.name = "rotate" /\ gop.times = 1) =>
        /\ gop.err = "none"
        /\ gop.result = Grid_rotate(grid, gop.rotation % 4).grid
        /\ Len(gop.result.gridVector) = Len(grid.gridVector)

\* C19 witness: rotate(-1) of a grid wider than high with an ALIVE cell.
C19_Witness ==
    /\ gop.name = "rotate" /\ gop.times = 1 /\ gop.rotation = -1
    /\ grid.width > grid.height /\ grid.height > 1
    /\ gop.result.width = grid.height
    /\ \E k \in DOMAIN gop.result.gridVector : gop.result.gridVector[k] = ALIVE

\* C20: every rotate(1) completes and returns a grid with the width and
\* height of its receiver exchanged; the fourth rotate(1) in a row returns a
\* grid equal to the first receiver; rotate(0) returns a grid equal to its
\* receiver.
C20_QuarterTurns ==
    gop.name = "rotate" =>
        /\ gop.rotation = 1 =>
              /\ gop.err = "none"
              /\ gop.result.width = gop.receiver.height
              /\ gop.result.height = gop.receiver.width
        /\ (gop.rotation = 1 /\ gop.times = 4) => gop.result = grid
        /\ gop.rotation = 0 => (gop.err = "none" /\ gop.result = gop.receiver)

\* C20 witness: the fourth rotate(1) in a row on a grid wider than high that
\* holds an ALIVE and a DEAD cell.
C20_Witness ==
    /\ gop.name = "rotate" /\ gop.rotation = 1 /\ gop.times = 4
    /\ grid.width > grid.height /\ grid.height > 1
    /\ gop.receiver # grid
    /\ gop.result = grid
    /\ \E k \in DOMAIN grid.gridVector : grid.gridVector[k] = ALIVE

\* ---------------------------------------------------------- cell access
\* (x, y) is outside g; a negative int is an unsigned value of 2^31 or more.
OutOf(g, x, y) == x < 0 \/ x >= g.width \/ y < 0 \/ y >= g.height

\* C21: after a write of v at valid coordinates, by set or by assignment
\* through the mutable accessor, every way of reading the same coordinates
\* completes and returns v.
C21_WriteThenRead ==
    (/\ gop.name = "read" /\ gop.after.name = "write"
     /\ ~OutOf(gop.after.before, gop.x, gop.y)) =>
        /\ gop.after.err = "none"
        /\ gop.err = "none"
        /\ gop.cell = gop.after.cell

\* C21 witness: DEAD written over an ALIVE cell off the first row and the
\* first column of a grid wider than high, and read back.
C21_Witness ==
    /\ gop.name = "read" /\ gop.after.name = "write"
    /\ gop.x > 0 /\ gop.y > 0 /\ grid.width > grid.height
    /\ ~OutOf(grid, gop.x, gop.y)
    /\ CellOf(gop.after.before, gop.x, gop.y) = ALIVE
    /\ gop.after.cell = DEAD /\ gop.cell = DEAD

\* C22: get, set and both accessors end with an error whenever x >= width
\* or y >= height, and complete otherwise; a write that ends with an error
\* leaves the grid as it was.
C22_OutOfBoundsFails ==
    /\ gop.name \in {"read", "write"} =>
          LET g == IF gop.name = "write" THEN gop.before ELSE grid
          IN (gop.err # "none") <=> OutOf(g, gop.x, gop.y)
    /\ (gop.name = "write" /\ gop.err # "none") => grid = gop.before

\* C22 witness: a set of ALIVE at x = width on a grid with cells that ended
\* with an error.
C22_Witness ==
    /\ gop.name = "write" /\ gop.how = "set" /\ gop.cell = ALIVE
    /\ gop.x = grid.width /\ gop.y = 0 /\ grid.height > 1 /\ grid.width > 1
    /\ gop.err # "none"
    /\ grid = gop.before

\* ------------------------------------------------------ World operations
SameSize(g, h) == g.width = h.width /\ g.height = h.height
HasAlive(g) == \E k \in DOMAIN g.gridVector : g.gridVector[k] = ALIVE

\* C23: the current and the next buffer always have the same width and the
\* same height, and no operation but resize changes them.
C23_BuffersSameSize ==
    /\ [](SameSize(currGrid, nextGrid)
            /\ Len(currGrid.gridVector) = currGrid.width * currGrid.height
            /\ Len(nextGrid.gridVector) = nextGrid.width * nextGrid.height)
    /\ [][op'.name # "resize" => SameSize(currGrid', currGrid)]_vars

\* C23 witness: a step that completed on a World resized to a width above its
\* height.
C23_Witness ==
    /\ nops = 2 /\ op.name = "step" /\ err = "none"
    /\ currGrid.width # start_state.width
    /\ currGrid.width > currGrid.height
    /\ HasAlive(currGrid)

\* C24: after World::resize(w, h) the current grid is w x h, holds its
\* previous value at every (x, y) inside the old and the new size and DEAD
\* elsewhere, and the next grid is w x h with every cell DEAD.
C24_WorldResize ==
    [][op'.name = "resize" =>
          /\ currGrid'.width = op'.new_width /\ currGrid'.height = op'.new_height
          /\ Len(currGrid'.gridVector) = op'.new_width * op'.new_height
          /\ \A c \in InBounds(currGrid') :
                CellOf(currGrid', c[1], c[2]) =
                   IF c[1] < currGrid.width /\ c[2] < currGrid.height
                   THEN CellOf(currGrid, c[1], c[2])
                   ELSE DEAD
          /\ nextGrid'.width = op'.new_width /\ nextGrid'.height = op'.new_height
          /\ Len(nextGrid'.gridVector) = op'.new_width * op'.new_height
          /\ ~HasAlive(nextGrid')]_vars

\* C24 witness: the first operation on a World built from a grid is a resize
\* to a smaller width and a larger height that keeps an ALIVE cell.
C24_Witness ==
    /\ nops = 1 /\ op.name = "resize"
    /\ op.new_width < start_state.width /\ op.new_height > start_state.height
    /\ HasAlive(currGrid)
    /\ nextGrid.width = op.new_width /\ ~HasAlive(nextGrid)

\* The World after step(wrap) is called n times in sequence, the sequence
\* ending at the first call that throws.  Result: [currGrid, nextGrid, err].
RECURSIVE StepTimes(_, _, _)
StepTimes(w, n, wrap) ==
    IF n = 0 THEN [currGrid |-> w.currGrid, nextGrid |-> w.nextGrid, err |-> "none"]
    ELSE LET r == StepTimes(w, n - 1, wrap)
         IN IF r.err # "none" THEN r
            ELSE World_step([currGrid |-> r.currGrid, nextGrid |-> r.nextGrid], wrap)

\* C25: advance(steps, wrap) leaves the World as steps calls of step(wrap)
\* in sequence do; advance(0, wrap) changes neither buffer; advance(a)
\* followed by advance(b) on a new World gives the current grid of
\* advance(a + b).
C25_AdvanceIsSteps ==
    [][op'.name = "advance" =>
          /\ LET r == StepTimes(world, op'.steps, op'.torodial)
             IN currGrid' = r.currGrid /\ nextGrid' = r.nextGrid /\ err' = r.err
          /\ op'.steps = 0 =>
                (currGrid' = currGrid /\ nextGrid' = nextGrid /\ err' = "none")
          /\ (/\ nops = 1 /\ op.name = "advance" /\ err = "none"
              /\ op.torodial = op'.torodial) =>
                LET whole == World_advance(World_from(start_state),
                                           op.steps + op'.steps, op.torodial)
                IN currGrid' = whole.currGrid /\ err' = whole.err]_vars

\* C25 witness: an advance of 2 steps, after an advance of 1 step, completed
\* on a World whose grid is not a still life and does not die out.
C25_Witness ==
    /\ nops = 2 /\ op.name = "advance" /\ op.steps = 2 /\ err = "none"
    /\ HasAlive(currGrid)
    /\ currGrid # nextGrid
    /\ currGrid = StepTimes(World_from(start_state), 3, op.torodial).currGrid
    /\ currGrid # StepTimes(World_from(start_state), 2, op.torodial).currGrid

\* The ALIVE cells of g, as coordinates.
AliveCells(g) == {c \in InBounds(g) : CellOf(g, c[1], c[2]) = ALIVE}

\* A square grid of side 3 or more whose only ALIVE cells are three in a
\* row, with a row of the grid above and below them.
IsBlinker(g) ==
    /\ g.width = g.height /\ g.width >= 3
    /\ \E x \in 0..(g.width - 3), y \in 1..(g.height - 2) :
          AliveCells(g) = {<<x, y>>, <<x + 1, y>>, <<x + 2, y>>}

\* C26: on a World built from a blinker, the first step(false) completes and
\* gives a current grid that differs from the blinker, and the second
\* step(false) completes and gives the blinker back, cell by cell.
C26_BlinkerPeriodTwo ==
    [][(/\ IsBlinker(start_state)
        /\ nops = 1 /\ op.name = "step" /\ ~op.torodial
        /\ op'.name = "step" /\ ~op'.torodial) =>
          /\ err = "none" /\ currGrid # start_state
          /\ err' = "none" /\ currGrid' = start_state]_vars

\* C26 witness: two steps after construction from a blinker the current grid
\* is the blinker and the next buffer holds the column of three.
C26_Witness ==
    /\ IsBlinker(start_state)
    /\ nops = 2 /\ op.name = "step" /\ ~op.torodial /\ err = "none"
    /\ currGrid = start_state
    /\ \E x \in 1..(nextGrid.width - 2), y \in 0..(nextGrid.height - 3) :
          AliveCells(nextGrid) = {<<x, y>>, <<x, y + 1>>, <<x, y + 2>>}

\* C27: on a World built from a grid with exactly one ALIVE cell, one
\* step(false) completes and leaves every cell of the current grid DEAD.
C27_LoneCellDies ==
    (/\ nops = 1 /\ op.name = "step" /\ ~op.torodial
     /\ Cardinality(AliveCells(start_state)) = 1) =>
        (err = "none" /\ ~HasAlive(currGrid))

\* C29: after a step that completes the next buffer holds the cells the
\* current buffer held before it; a step that throws leaves the current
\* buffer as it was.
C29_SwapExchanges ==
    [][op'.name = "step" =>
          /\ err' = "none" => nextGrid' = currGrid
          /\ err' # "none" => currGrid' = currGrid]_vars

\* C29 witness: the first step on a World completed, the next buffer is the
\* grid the World was built from and the current grid is another live one.
C29_Witness ==
    /\ nops = 1 /\ op.name = "step" /\ err = "none"
    /\ nextGrid = start_state
    /\ currGrid # nextGrid
    /\ HasAlive(currGrid)

\* C30: after a step that throws, the current grid is the one of before the
\* call; after an advance that throws, it is the current grid left by the
\* last of its steps that completed.
C30_FailureKeepsCurrent ==
    [][(op'.name \in {"step", "advance"} /\ err' # "none") =>
          IF op'.name = "step" THEN currGrid' = currGrid
          ELSE \E k \in 0..(op'.steps - 1) :
                  /\ StepTimes(world, k, op'.torodial).err = "none"
                  /\ StepTimes(world, k + 1, op'.torodial).err # "none"
                  /\ currGrid' = StepTimes(world, k, op'.torodial).currGrid]_vars

\* C30 witness: the first step on a World threw after writing cells of the
\* next buffer, and the current grid is the grid the World was built from.
C30_Witness ==
    /\ nops = 1 /\ op.name = "step" /\ err # "none"
    /\ currGrid = start_state
    /\ HasAlive(currGrid)
    /\ nextGrid # currGrid


\* C28: loading the text that save_ascii wrote for a grid yields a grid with
\* the same width, height and cells, a grid of width 0 or height 0 included.
C28_TextRoundTrip ==
    (loaded.called /\ file.from = "save_ascii") =>
        /\ loaded.err = "none"
        /\ loaded.grid = saved


====
